---- MODULE Spec2Model ----
(***************************************************************************)
(* Model of metric/distribution/regular/testdata/histogram_mappings.py:    *)
(* plot_original_histogram (canonical edge inference),                     *)
(* plot_cw_histogram_bars (sparse layout) and plot_all_folders_comparison  *)
(* (the multi-representation comparison).                                  *)
(*                                                                         *)
(* Numbers are exact: inputs are integers, a sparse bar width is kept in   *)
(* tenths (the code multiplies by 0.8 and halves gaps) and an axis limit   *)
(* in twentieths (the code pads by 0.05).  An optional value (Python None) *)
(* is the empty tuple, a present value v is <<v>>.                         *)
(***************************************************************************)
EXTENDS Integers, Sequences, FiniteSets, TLC

VARIABLES
    entry,         \* the function of the module that was called
    data,          \* argument of plot_original_histogram: the 'original' JSON object
    orig_result,   \* what plot_original_histogram handed to ax.bar / set_title
    histogram,     \* argument of plot_cw_histogram_bars: dict as <<key, count>> pairs in insertion order
    histogram_min, \* argument of plot_cw_histogram_bars
    histogram_max, \* argument of plot_cw_histogram_bars
    bars_result,   \* what plot_cw_histogram_bars handed to ax.bar / set_title
    files,         \* plot_all_folders_comparison: folder -> content of <folder>/<name>.json
    pc,            \* plot_all_folders_comparison: position in the function
    idx,           \* plot_all_folders_comparison: loop index of the running pass
    all_data,      \* plot_all_folders_comparison: list of (folder, data, hist, range)
    global_min,    \* plot_all_folders_comparison: None stands for float('inf')
    global_max,    \* plot_all_folders_comparison: None stands for float('-inf')
    errors,        \* plot_all_folders_comparison: the "Error processing" lines printed
    plotted,       \* plot_all_folders_comparison: per subplot, the bars drawn and the xlim set
    raised,        \* plot_all_folders_comparison: exception that left the function, or "none"
    agents,        \* streamlit-ui: the agents returned by client.get_agents() in the last script run
    selected_agent_id, \* app.py: st.session_state.selected_agent_id
    dash,          \* app.py: the locals of the last script run
    sent,          \* app.py: the commands posted to the server, in order
    agent_selector,   \* Metrics page: value of the select box with key "agent_selector"
    previous_agent,   \* Metrics page: st.session_state.previous_agent, None while absent
    metrics_selector, \* Metrics page: st.session_state.metrics_selector, the multiselect's value
    time_filter,      \* Metrics page: st.session_state.time_filter, None while absent
    custom_time,      \* Metrics page: text of the input with key "custom_time"
    pressed,          \* Metrics page: the preset button that triggered the pending run, or "none"
    last_preset,      \* Metrics page: the preset button the user pressed last, or "none"
    mpc,              \* Metrics page: "rerun" while a script run is pending, else "idle"
    page,             \* Metrics page: the locals of the last script run
    log_agents,       \* Logs page: the agents returned by client.get_agents(), in dict order
    log_choice,       \* Logs page: index of the option picked in "Select agent for logs:"
    logs,             \* Logs page: the locals of the last script run
    calls,            \* api_client.py: the calls made on the OpAMPClient and how each ended
    now,              \* write_and_rotate_logs.py: int(time.time())
    rpc,              \* write_and_rotate_logs.py: the statement the script is at
    rolloverAt,       \* write_and_rotate_logs.py: handler.rolloverAt
    base_file,        \* write_and_rotate_logs.py: content and mtime of /tmp/rotate_me.log
    rotated           \* write_and_rotate_logs.py: the files /tmp/rotate_me.log.<time>

vars == <<entry, data, orig_result, histogram, histogram_min, histogram_max,
          bars_result, files, pc, idx, all_data, global_min,
          global_max, errors, plotted, raised, agents, selected_agent_id, dash, sent,
          agent_selector, previous_agent, metrics_selector, time_filter, custom_time,
          pressed, last_preset, mpc, page, log_agents, log_choice, logs, calls,
          now, rpc, rolloverAt, base_file, rotated>>

origVars == <<data, orig_result>>
barsVars == <<histogram, histogram_min, histogram_max, bars_result>>
cmpVars  == <<files, pc, idx, all_data, global_min, global_max, errors, plotted, raised>>
dashVars == <<agents, selected_agent_id, dash, sent>>

\* everything outside histogram_mappings.py
metricsVars == <<agent_selector, previous_agent, metrics_selector, time_filter, custom_time,
                 pressed, last_preset, mpc, page>>

logsVars == <<log_agents, log_choice, logs>>
clientVars == <<calls>>
rotateVars == <<now, rpc, rolloverAt, base_file, rotated>>
restVars == <<logsVars, clientVars, rotateVars>>

toolVars == <<dashVars, metricsVars, restVars>>

----------------------------------------------------------------------------
(* Bounds of the model *)

MaxBoundaries == 3   \* longest Boundaries array
MaxCounts == 4       \* longest Counts array
MaxVal == 3          \* boundaries and representative values range over 0..MaxVal
MaxCount == 1        \* a count of a canonical histogram ranges over 1..MaxCount
MaxKeys == 3         \* most keys of a sparse histogram passed to the layout directly
MaxDictCount == 2    \* a count of a sparse histogram ranges over 1..MaxDictCount
MaxFiles == 3        \* only the first MaxFiles folders of a comparison may hold a file
CmpMaxLen == 2       \* longest values / counts / Boundaries array in a compared file
CmpMaxVal == 2       \* values and boundaries of a compared file range over 1..CmpMaxVal
CmpMaxCount == 1     \* a count of a compared file ranges over 1..CmpMaxCount
AxisMaxVal == 2      \* values and boundaries of a generator-shaped file range over 1..AxisMaxVal
AxisFiles == 3       \* only the first AxisFiles folders hold a generator-shaped file
DashMaxIdLen == 2    \* longest instance ID of an agent of the dashboard
DashMaxAgents == 2   \* most agents returned to the dashboard
DashMaxSent == 1     \* most commands the dashboard posts
MetricsMaxAgents == 2  \* agents offered by the Metrics page
MetricsMaxNames == 2   \* metrics offered by the Metrics page

----------------------------------------------------------------------------
(* Python values *)

None == <<>>
Some(x) == <<x>>
Val(o) == o[1]

SeqsUpTo(S, n) == UNION {[1..m -> S] : m \in 0..n}

\* seq[j] with Python's negative indexes; PyInRange is false where Python raises IndexError
PyInRange(s, j) == j >= 0 - Len(s) /\ j < Len(s)
PyIndex(s, j) == IF j >= 0 THEN s[j + 1] ELSE s[Len(s) + j + 1]

RECURSIVE SumSeq(_)
SumSeq(s) == IF s = <<>> THEN 0 ELSE Head(s) + SumSeq(Tail(s))

Min2(a, b) == IF a <= b THEN a ELSE b
Max2(a, b) == IF a >= b THEN a ELSE b

SetMinOf(S) == CHOOSE x \in S : \A y \in S : x <= y

RECURSIVE MinSeq(_)
MinSeq(s) == IF Len(s) = 1 THEN s[1] ELSE Min2(Head(s), MinSeq(Tail(s)))

RECURSIVE MaxSeq(_)
MaxSeq(s) == IF Len(s) = 1 THEN s[1] ELSE Max2(Head(s), MaxSeq(Tail(s)))

----------------------------------------------------------------------------
(* plot_original_histogram *)

NoResult == [exc |-> "not run", left_edges |-> <<>>, widths |-> <<>>,
             counts |-> <<>>, total_count |-> 0]

Raise(e) == [exc |-> e, left_edges |-> <<>>, widths |-> <<>>,
             counts |-> <<>>, total_count |-> 0]

\* one iteration of the loop over range(len(counts)): the (left, right) pair,
\* or the IndexError raised by a boundaries[...] subscript
BucketEdges_lastFromFirst(boundaries, min_val, max_val, n, i) ==
    IF i = 0 THEN
        [exc |-> "none",
         left |-> IF min_val # None THEN Val(min_val)
                  ELSE IF Len(boundaries) > 1
                       THEN boundaries[1] - (boundaries[2] - boundaries[1])
                       ELSE boundaries[1] - 10,
         right |-> boundaries[1]]
    ELSE IF i = n - 1 THEN
        IF ~PyInRange(boundaries, i - 2) THEN [exc |-> "IndexError", left |-> 0, right |-> 0]
        ELSE [exc |-> "none",
              left |-> PyIndex(boundaries, i - 2),
              right |-> IF max_val # None THEN Val(max_val)
                        ELSE IF Len(boundaries) > 1
                             THEN PyIndex(boundaries, i - 1)
                                  + (PyIndex(boundaries, i - 1) - PyIndex(boundaries, i - 2))
                             ELSE PyIndex(boundaries, i - 1) + 10]
    ELSE
        IF ~PyInRange(boundaries, i - 1) \/ ~PyInRange(boundaries, i)
        THEN [exc |-> "IndexError", left |-> 0, right |-> 0]
        ELSE [exc |-> "none",
              left |-> PyIndex(boundaries, i - 1),
              right |-> PyIndex(boundaries, i)]

BucketEdges_firstByTen(boundaries, min_val, max_val, n, i) ==
    IF i = 0 THEN
        [exc |-> "none",
         left |-> IF min_val # None THEN Val(min_val) ELSE boundaries[1] - 10,
         right |-> boundaries[1]]
    ELSE IF i = n - 1 THEN
        IF ~PyInRange(boundaries, i - 1) THEN [exc |-> "IndexError", left |-> 0, right |-> 0]
        ELSE IF max_val # None THEN
            [exc |-> "none", left |-> PyIndex(boundaries, i - 1), right |-> Val(max_val)]
        ELSE IF Len(boundaries) > 1 THEN
            IF ~PyInRange(boundaries, i - 2) THEN [exc |-> "IndexError", left |-> 0, right |-> 0]
            ELSE [exc |-> "none",
                  left |-> PyIndex(boundaries, i - 1),
                  right |-> PyIndex(boundaries, i - 1)
                            + (PyIndex(boundaries, i - 1) - PyIndex(boundaries, i - 2))]
        ELSE [exc |-> "none",
              left |-> PyIndex(boundaries, i - 1),
              right |-> PyIndex(boundaries, i - 1) + 10]
    ELSE
        IF ~PyInRange(boundaries, i - 1) \/ ~PyInRange(boundaries, i)
        THEN [exc |-> "IndexError", left |-> 0, right |-> 0]
        ELSE [exc |-> "none",
              left |-> PyIndex(boundaries, i - 1),
              right |-> PyIndex(boundaries, i)]

BucketEdges_lastByFirstGap(boundaries, min_val, max_val, n, i) ==
    IF i = 0 THEN
        [exc |-> "none",
         left |-> IF min_val # None THEN Val(min_val)
                  ELSE IF Len(boundaries) > 1
                       THEN boundaries[1] - (boundaries[2] - boundaries[1])
                       ELSE boundaries[1] - 10,
         right |-> boundaries[1]]
    ELSE IF i = n - 1 THEN
        IF ~PyInRange(boundaries, i - 1) THEN [exc |-> "IndexError", left |-> 0, right |-> 0]
        ELSE IF max_val # None THEN
            [exc |-> "none", left |-> PyIndex(boundaries, i - 1), right |-> Val(max_val)]
        ELSE IF Len(boundaries) > 1 THEN
            [exc |-> "none",
             left |-> PyIndex(boundaries, i - 1),
             right |-> PyIndex(boundaries, i - 1) + (boundaries[2] - boundaries[1])]
        ELSE [exc |-> "none",
              left |-> PyIndex(boundaries, i - 1),
              right |-> PyIndex(boundaries, i - 1) + 10]
    ELSE
        IF ~PyInRange(boundaries, i - 1) \/ ~PyInRange(boundaries, i)
        THEN [exc |-> "IndexError", left |-> 0, right |-> 0]
        ELSE [exc |-> "none",
              left |-> PyIndex(boundaries, i - 1),
              right |-> PyIndex(boundaries, i)]

BucketEdges_interiorSwapped(boundaries, min_val, max_val, n, i) ==
    IF i = 0 THEN
        [exc |-> "none",
         left |-> IF min_val # None THEN Val(min_val)
                  ELSE IF Len(boundaries) > 1
                       THEN boundaries[1] - (boundaries[2] - boundaries[1])
                       ELSE boundaries[1] - 10,
         right |-> boundaries[1]]
    ELSE IF i = n - 1 THEN
        IF ~PyInRange(boundaries, i - 1) THEN [exc |-> "IndexError", left |-> 0, right |-> 0]
        ELSE IF max_val # None THEN
            [exc |-> "none", left |-> PyIndex(boundaries, i - 1), right |-> Val(max_val)]
        ELSE IF Len(boundaries) > 1 THEN
            IF ~PyInRange(boundaries, i - 2) THEN [exc |-> "IndexError", left |-> 0, right |-> 0]
            ELSE [exc |-> "none",
                  left |-> PyIndex(boundaries, i - 1),
                  right |-> PyIndex(boundaries, i - 1)
                            + (PyIndex(boundaries, i - 1) - PyIndex(boundaries, i - 2))]
        ELSE [exc |-> "none",
              left |-> PyIndex(boundaries, i - 1),
              right |-> PyIndex(boundaries, i - 1) + 10]
    ELSE
        IF ~PyInRange(boundaries, i - 1) \/ ~PyInRange(boundaries, i)
        THEN [exc |-> "IndexError", left |-> 0, right |-> 0]
        ELSE [exc |-> "none",
              left |-> PyIndex(boundaries, i),
              right |-> PyIndex(boundaries, i - 1)]

BucketEdges(boundaries, min_val, max_val, n, i) ==
    IF i = 0 THEN
        [exc |-> "none",
         left |-> IF min_val # None THEN Val(min_val)
                  ELSE IF Len(boundaries) > 1
                       THEN boundaries[1] - (boundaries[2] - boundaries[1])
                       ELSE boundaries[1] - 10,
         right |-> boundaries[1]]
    ELSE IF i = n - 1 THEN
        IF ~PyInRange(boundaries, i - 1) THEN [exc |-> "IndexError", left |-> 0, right |-> 0]
        ELSE IF max_val # None THEN
            [exc |-> "none", left |-> PyIndex(boundaries, i - 1), right |-> Val(max_val)]
        ELSE IF Len(boundaries) > 1 THEN
            IF ~PyInRange(boundaries, i - 2) THEN [exc |-> "IndexError", left |-> 0, right |-> 0]
            ELSE [exc |-> "none",
                  left |-> PyIndex(boundaries, i - 1),
                  right |-> PyIndex(boundaries, i - 1)
                            + (PyIndex(boundaries, i - 1) - PyIndex(boundaries, i - 2))]
        ELSE [exc |-> "none",
              left |-> PyIndex(boundaries, i - 1),
              right |-> PyIndex(boundaries, i - 1) + 10]
    ELSE
        IF ~PyInRange(boundaries, i - 1) \/ ~PyInRange(boundaries, i)
        THEN [exc |-> "IndexError", left |-> 0, right |-> 0]
        ELSE [exc |-> "none",
              left |-> PyIndex(boundaries, i - 1),
              right |-> PyIndex(boundaries, i)]

\* the single-bucket branch, taken when Boundaries is missing or empty
SingleBucket_anyPresent(min_val, max_val) ==
    IF min_val # None /\ max_val # None
    THEN [left_edges |-> <<Val(min_val)>>, widths |-> <<Val(max_val) - Val(min_val)>>]
    ELSE IF min_val # None
    THEN [left_edges |-> <<Val(min_val)>>, widths |-> <<20>>]
    ELSE [left_edges |-> <<-10>>, widths |-> <<20>>]

SingleBucket(min_val, max_val) ==
    IF min_val # None /\ max_val # None
    THEN [left_edges |-> <<Val(min_val)>>, widths |-> <<Val(max_val) - Val(min_val)>>]
    ELSE [left_edges |-> <<-10>>, widths |-> <<20>>]

plot_original_histogram(d) ==
    LET boundaries == d.Boundaries
        counts == d.Counts
        min_val == d.Min
        max_val == d.Max
        total_count == SumSeq(counts)
        n == Len(counts)
        edge(i) == BucketEdges(boundaries, min_val, max_val, n, i)
    IN  IF boundaries = <<>> THEN
            LET s == SingleBucket(min_val, max_val)
            IN  [exc |-> "none", left_edges |-> s.left_edges, widths |-> s.widths,
                 counts |-> counts, total_count |-> total_count]
        ELSE IF \E i \in 0..(n - 1) : edge(i).exc # "none" THEN
            Raise("IndexError")
        ELSE
            [exc |-> "none",
             left_edges |-> [j \in 1..n |-> edge(j - 1).left],
             widths |-> [j \in 1..n |-> edge(j - 1).right - edge(j - 1).left],
             counts |-> counts,
             total_count |-> total_count]

----------------------------------------------------------------------------
(* plot_cw_histogram_bars *)

NoBars == [exc |-> "not run", values |-> <<>>, counts |-> <<>>,
           widths10 |-> <<>>, total_count |-> 0]

RaiseBars(e) == [exc |-> e, values |-> <<>>, counts |-> <<>>,
                 widths10 |-> <<>>, total_count |-> 0]

\* a dict is the sequence of its <<key, value>> items in insertion order
Keys(h) == [j \in 1..Len(h) |-> h[j][1]]
KeySet(h) == {h[j][1] : j \in 1..Len(h)}
Get(h, k) == h[CHOOSE j \in 1..Len(h) : h[j][1] = k][2]

RECURSIVE InsertSorted(_, _)
InsertSorted(x, s) ==
    IF s = <<>> THEN <<x>>
    ELSE IF x <= Head(s) THEN <<x>> \o s
    ELSE <<Head(s)>> \o InsertSorted(x, Tail(s))

\* sorted(list): ascending order
sorted_unsorted(s) == s

RECURSIVE sorted(_)
sorted(s) == IF s = <<>> THEN <<>> ELSE InsertSorted(Head(s), sorted(Tail(s)))

\* gaps = [values[i+1] - values[i] for i in range(len(values)-1)]
Gaps(values) == [j \in 1..(Len(values) - 1) |-> values[j + 1] - values[j]]

\* max_width = min_gap * 0.8, in tenths
MaxWidth10_maxGap(values) == 8 * MaxSeq(Gaps(values))

MaxWidth10(values) == 8 * MinSeq(Gaps(values))

\* the width of bar i (0-based) in the loop of the general case, in tenths
BarWidth10_noCap(values, hmin, hmax, i) ==
    LET n == Len(values)
        v(j) == values[j + 1]
    IN  IF i = 0 THEN 10 * (v(0) - hmin) + 5 * (v(1) - v(0))
        ELSE IF i = n - 1 THEN 5 * (v(i) - v(i - 1)) + 10 * (hmax - v(i))
        ELSE 5 * (v(i) - v(i - 1)) + 5 * (v(i + 1) - v(i))

BarWidth10_interiorLeftOnly(values, hmin, hmax, i) ==
    LET n == Len(values)
        v(j) == values[j + 1]
        max_width == MaxWidth10(values)
    IN  IF i = 0 THEN
            LET left_space == 10 * (v(0) - hmin)
                right_space == IF n > 1 THEN 5 * (v(1) - v(0)) ELSE 10 * (hmax - v(0))
            IN  Min2(left_space + right_space, max_width)
        ELSE IF i = n - 1 THEN
            LET left_space == 5 * (v(i) - v(i - 1))
                right_space == 10 * (hmax - v(i))
            IN  Min2(left_space + right_space, max_width)
        ELSE
            LET left_space == 5 * (v(i) - v(i - 1))
            IN  Min2(left_space, max_width)

BarWidth10(values, hmin, hmax, i) ==
    LET n == Len(values)
        v(j) == values[j + 1]
        max_width == MaxWidth10(values)
    IN  IF i = 0 THEN
            LET left_space == 10 * (v(0) - hmin)
                right_space == IF n > 1 THEN 5 * (v(1) - v(0)) ELSE 10 * (hmax - v(0))
            IN  Min2(left_space + right_space, max_width)
        ELSE IF i = n - 1 THEN
            LET left_space == 5 * (v(i) - v(i - 1))
                right_space == 10 * (hmax - v(i))
            IN  Min2(left_space + right_space, max_width)
        ELSE
            LET left_space == 5 * (v(i) - v(i - 1))
                right_space == 5 * (v(i + 1) - v(i))
            IN  Min2(left_space + right_space, max_width)

plot_cw_histogram_bars_noSingleCase(h, hmin, hmax) ==
    LET values == sorted(Keys(h))
        counts == [j \in 1..Len(values) |-> Get(h, values[j])]
        total_count == SumSeq(counts)
    IN  IF Len(values) <= 1 THEN
            RaiseBars("ValueError")
        ELSE
            [exc |-> "none", values |-> values, counts |-> counts,
             widths10 |-> [j \in 1..Len(values) |-> BarWidth10(values, hmin, hmax, j - 1)],
             total_count |-> total_count]

plot_cw_histogram_bars_countsAsInserted(h, hmin, hmax) ==
    LET values == sorted(Keys(h))
        counts == [j \in 1..Len(values) |-> h[j][2]]
        total_count == SumSeq(counts)
    IN  IF Len(values) = 1 THEN
            [exc |-> "none", values |-> values, counts |-> counts,
             widths10 |-> <<8 * (hmax - hmin)>>, total_count |-> total_count]
        ELSE IF Len(values) = 0 THEN
            RaiseBars("ValueError")
        ELSE
            [exc |-> "none", values |-> values, counts |-> counts,
             widths10 |-> [j \in 1..Len(values) |-> BarWidth10(values, hmin, hmax, j - 1)],
             total_count |-> total_count]

plot_cw_histogram_bars(h, hmin, hmax) ==
    LET values == sorted(Keys(h))
        counts == [j \in 1..Len(values) |-> Get(h, values[j])]
        total_count == SumSeq(counts)
    IN  IF Len(values) = 1 THEN
            [exc |-> "none", values |-> values, counts |-> counts,
             widths10 |-> <<8 * (hmax - hmin)>>, total_count |-> total_count]
        ELSE IF Len(values) = 0 THEN
            RaiseBars("ValueError")      \* min() of the empty list of gaps
        ELSE
            [exc |-> "none", values |-> values, counts |-> counts,
             widths10 |-> [j \in 1..Len(values) |-> BarWidth10(values, hmin, hmax, j - 1)],
             total_count |-> total_count]

----------------------------------------------------------------------------
(* The three entry points, each called on every bounded input *)

\* Min / Max: absent, below every boundary, among the boundaries, above them
Optional == {None, Some(0 - 1), Some(1), Some(MaxVal + 1)}

OrigInputs ==
    [Boundaries : SeqsUpTo(0..MaxVal, MaxBoundaries),
     Counts : SeqsUpTo(1..MaxCount, MaxCounts) \ {<<>>},
     Min : Optional,
     Max : Optional]

DistinctKeys(h) == \A i, j \in 1..Len(h) : h[i][1] = h[j][1] => i = j

\* every dict with at most MaxKeys keys, in every insertion order
Dicts == {h \in SeqsUpTo((0..MaxVal) \X (1..MaxDictCount), MaxKeys) : DistinctKeys(h)}

\* nothing of the dashboard, the client or the log fixture has run
DashIdle == /\ agents = <<>>
            /\ selected_agent_id = None
            /\ dash = [run |-> "none"]
            /\ sent = <<>>

MetricsIdle == /\ agent_selector = 1
               /\ previous_agent = None
               /\ metrics_selector = {}
               /\ time_filter = None
               /\ custom_time = ""
               /\ pressed = "none"
               /\ last_preset = "none"
               /\ mpc = "idle"
               /\ page = [run |-> "none"]

LogsIdle == /\ log_agents = <<>>
            /\ log_choice = 0
            /\ logs = [run |-> "none"]

ClientIdle == calls = <<>>

RotateIdle == /\ now = 0
              /\ rpc = "not started"
              /\ rolloverAt = 0
              /\ base_file = None
              /\ rotated = {}

RestIdle == LogsIdle /\ ClientIdle /\ RotateIdle

ToolsIdle == DashIdle /\ MetricsIdle /\ RestIdle

OrigIdle == /\ data = [Boundaries |-> <<>>, Counts |-> <<1>>, Min |-> None, Max |-> None]
            /\ orig_result = NoResult

BarsIdle == /\ histogram = <<>>
            /\ histogram_min = 0
            /\ histogram_max = 0
            /\ bars_result = NoBars

CmpIdle == /\ files = <<>>
           /\ pc = "idle"
           /\ idx = 0
           /\ all_data = <<>>
           /\ global_min = None
           /\ global_max = None
           /\ errors = <<>>
           /\ plotted = <<>>
           /\ raised = "none"

InitOrig == /\ entry = "plot_original_histogram"
            /\ data \in OrigInputs
            /\ orig_result = NoResult
            /\ BarsIdle
            /\ CmpIdle
            /\ ToolsIdle

InitBars == /\ entry = "plot_cw_histogram_bars"
            /\ histogram \in Dicts
            /\ histogram_min \in (0 - 1)..(MaxVal + 1)
            /\ histogram_max \in (0 - 1)..(MaxVal + 1)
            /\ bars_result = NoBars
            /\ OrigIdle
            /\ CmpIdle
            /\ ToolsIdle

\* a call plot_original_histogram(data, ax, title, color)
PlotOriginal == /\ entry = "plot_original_histogram"
                /\ orig_result' = plot_original_histogram(data)
                /\ UNCHANGED <<toolVars, entry, data, barsVars, cmpVars>>

\* a call plot_cw_histogram_bars(histogram, histogram_min, histogram_max, ax, title, color)
PlotBars == /\ entry = "plot_cw_histogram_bars"
            /\ bars_result' = plot_cw_histogram_bars(histogram, histogram_min, histogram_max)
            /\ UNCHANGED <<toolVars, entry, histogram, histogram_min, histogram_max, origVars, cmpVars>>

\* the caller builds the same mapping in another insertion order
Reinsert == /\ entry = "plot_cw_histogram_bars"
            /\ \E i \in 1..(Len(histogram) - 1) :
                  histogram' = [histogram EXCEPT ![i] = histogram[i + 1],
                                                 ![i + 1] = histogram[i]]
            /\ UNCHANGED <<toolVars, entry, histogram_min, histogram_max, bars_result, origVars, cmpVars>>

Init == InitOrig \/ InitBars

Next == PlotOriginal \/ PlotBars \/ Reinsert

Spec == Init /\ [][Next]_vars

----------------------------------------------------------------------------
(* plot_all_folders_comparison *)

folders == <<"original", "cwagent", "even", "middlepoint", "exponential", "exponentialcw">>

Missing == [kind |-> "missing"]
Corrupt == [kind |-> "corrupt"]

CmpOriginals ==
    [kind : {"json"},
     Boundaries : SeqsUpTo(1..CmpMaxVal, CmpMaxLen),
     Counts : SeqsUpTo(1..CmpMaxCount, CmpMaxLen + 1) \ {<<>>},
     Min : {None, Some(0)},
     Max : {None, Some(CmpMaxVal + 1)}]

CmpAlternatives ==
    [kind : {"json"},
     values : SeqsUpTo(1..CmpMaxVal, CmpMaxLen),
     counts : SeqsUpTo(1..CmpMaxCount, CmpMaxLen)]

\* the files a comparison may find: one per folder, none beyond the first MaxFiles
FileSystems ==
    {<<o>> \o alts \o [j \in 1..(Len(folders) - MaxFiles) |-> Missing] :
        o \in {Missing, Corrupt} \cup CmpOriginals,
        alts \in [1..(MaxFiles - 1) -> {Missing, Corrupt} \cup CmpAlternatives]}

\* min(global_min, x) and max(global_max, x), None being float('inf') / float('-inf');
\* the global range is kept in twentieths
GMin_keepFirst(g, x) == IF g = None THEN Some(20 * x) ELSE g

GMin(g, x) == IF g = None THEN Some(20 * x) ELSE Some(Min2(Val(g), 20 * x))
GMax(g, x) == IF g = None THEN Some(20 * x) ELSE Some(Max2(Val(g), 20 * x))

\* {values[j]: counts[j] for j in range(len(values))}: a repeated key keeps its
\* place of first insertion and takes the last count
RECURSIVE DictPut(_, _, _)
DictPut(h, k, c) ==
    IF h = <<>> THEN << <<k, c>> >>
    ELSE IF Head(h)[1] = k THEN << <<k, c>> >> \o Tail(h)
    ELSE <<Head(h)>> \o DictPut(Tail(h), k, c)

RECURSIVE ZipDict(_, _, _)
ZipDict(values, counts, n) ==
    IF n = 0 THEN <<>>
    ELSE DictPut(ZipDict(values, counts, n - 1), values[n], counts[n])

Entry_swappedRange(folder, orig, hist, range) ==
    [folder |-> folder, orig_data |-> orig, hist_data |-> hist,
     hist_range |-> IF range = <<>> THEN range ELSE <<range[2], range[1]>>]

Entry(folder, orig, hist, range) ==
    [folder |-> folder, orig_data |-> orig, hist_data |-> hist, hist_range |-> range]

NoData == [kind |-> "none"]

\* one iteration of the first pass: for folder in folders
FirstPass ==
    /\ entry = "plot_all_folders_comparison"
    /\ pc = "first pass"
    /\ idx <= Len(folders)
    /\ LET folder == folders[idx]
           f == files[idx]
       IN  IF f.kind = "missing" THEN
               UNCHANGED <<all_data, global_min, global_max, errors>>
           ELSE IF f.kind = "corrupt" THEN
               /\ errors' = Append(errors, <<folder, "JSONDecodeError">>)
               /\ UNCHANGED <<all_data, global_min, global_max>>
           ELSE IF folder = "original" THEN
               LET g1 == IF f.Min # None THEN GMin(global_min, Val(f.Min)) ELSE global_min
                   h1 == IF f.Max # None THEN GMax(global_max, Val(f.Max)) ELSE global_max
               IN  /\ global_min' = IF f.Boundaries # <<>>
                                    THEN GMin(g1, MinSeq(f.Boundaries)) ELSE g1
                   /\ global_max' = IF f.Boundaries # <<>>
                                    THEN GMax(h1, MaxSeq(f.Boundaries)) ELSE h1
                   /\ all_data' = Append(all_data, Entry(folder, f, <<>>, <<>>))
                   /\ UNCHANGED errors
           ELSE IF f.values = <<>> THEN
               UNCHANGED <<all_data, global_min, global_max, errors>>
           ELSE
               /\ global_min' = GMin(global_min, MinSeq(f.values))
               /\ global_max' = GMax(global_max, MaxSeq(f.values))
               /\ IF Len(f.counts) < Len(f.values)
                  THEN /\ errors' = Append(errors, <<folder, "IndexError">>)
                       /\ UNCHANGED all_data
                  ELSE /\ all_data' = Append(all_data,
                                         Entry(folder, NoData,
                                               ZipDict(f.values, f.counts, Len(f.values)),
                                               <<MinSeq(f.values), MaxSeq(f.values)>>))
                       /\ UNCHANGED errors
    /\ idx' = idx + 1
    /\ UNCHANGED <<toolVars, entry, files, pc, plotted, raised, origVars, barsVars>>

\* after the first pass: the 5% padding and plt.subplots(len(all_data), 1), which
\* raises ValueError for zero rows
Prepare ==
    /\ entry = "plot_all_folders_comparison"
    /\ pc = "first pass"
    /\ idx > Len(folders)
    /\ IF global_min # None /\ global_max # None
       THEN LET range_padding == (Val(global_max) - Val(global_min)) \div 20
            IN  /\ global_min' = Some(Val(global_min) - range_padding)
                /\ global_max' = Some(Val(global_max) + range_padding)
       ELSE UNCHANGED <<global_min, global_max>>
    /\ IF Len(all_data) = 0
       THEN pc' = "raised" /\ raised' = "ValueError" /\ UNCHANGED idx
       ELSE pc' = "second pass" /\ idx' = 1 /\ UNCHANGED raised
    /\ UNCHANGED <<toolVars, entry, files, all_data, errors, plotted, origVars, barsVars>>

Subplot(folder, orig, bars, lo, hi) ==
    [folder |-> folder, orig |-> orig, bars |-> bars, xlim |-> <<lo, hi>>]

\* one iteration of the second pass; for a single row plt.subplots returns one
\* Axes and ax[i] raises TypeError
SecondPass ==
    /\ entry = "plot_all_folders_comparison"
    /\ pc = "second pass"
    /\ idx <= Len(all_data)
    /\ LET e == all_data[idx]
           o == plot_original_histogram(e.orig_data)
       IN  IF Len(all_data) = 1 THEN
               /\ pc' = "raised" /\ raised' = "TypeError"
               /\ UNCHANGED <<idx, plotted>>
           ELSE IF e.orig_data # NoData /\ o.exc # "none" THEN
               /\ pc' = "raised" /\ raised' = o.exc
               /\ UNCHANGED <<idx, plotted>>
           ELSE
               /\ plotted' = Append(plotted,
                      IF e.orig_data # NoData
                      THEN Subplot(e.folder, o, NoBars, global_min, global_max)
                      ELSE Subplot(e.folder, NoResult,
                                   plot_cw_histogram_bars(e.hist_data, e.hist_range[1],
                                                          e.hist_range[2]),
                                   global_min, global_max))
               /\ idx' = idx + 1
               /\ UNCHANGED <<pc, raised>>
    /\ UNCHANGED <<toolVars, entry, files, all_data, global_min, global_max, errors, origVars, barsVars>>

\* plt.tight_layout(), plt.savefig(...), plt.show()
SaveFigure ==
    /\ entry = "plot_all_folders_comparison"
    /\ pc = "second pass"
    /\ idx > Len(all_data)
    /\ pc' = "saved"
    /\ UNCHANGED <<toolVars, entry, files, idx, all_data, global_min, global_max, errors, plotted,
                   raised, origVars, barsVars>>

InitCmp == /\ entry = "plot_all_folders_comparison"
           /\ files \in FileSystems
           /\ pc = "first pass"
           /\ idx = 1
           /\ all_data = <<>>
           /\ global_min = None
           /\ global_max = None
           /\ errors = <<>>
           /\ plotted = <<>>
           /\ raised = "none"
           /\ OrigIdle
           /\ BarsIdle
           /\ ToolsIdle

NextCmp == FirstPass \/ Prepare \/ SecondPass \/ SaveFigure

SpecCmp == InitCmp /\ [][NextCmp]_vars

----------------------------------------------------------------------------
(* plot_all_folders_comparison on files as the test-data generator writes
   them: ascending distinct boundaries and values, one more count than
   boundaries, and a counts array as long as the values or one short *)

RECURSIVE AscendingSeq(_)
AscendingSeq(S) ==
    IF S = {} THEN <<>>
    ELSE LET m == CHOOSE x \in S : \A y \in S : x <= y
         IN  <<m>> \o AscendingSeq(S \ {m})

AxisValues == {AscendingSeq(S) : S \in SUBSET (1..AxisMaxVal)}

Ones(n) == [j \in 1..n |-> 1]

\* Min and Max, when given, lie among the boundaries and values
AxisOriginals ==
    {[kind |-> "json", Boundaries |-> b, Counts |-> Ones(Len(b) + 1), Min |-> mn, Max |-> mx] :
        b \in AxisValues, mn \in {None, Some(2)}, mx \in {None, Some(1)}}

AxisAlternatives ==
    {[kind |-> "json", values |-> v, counts |-> Ones(Len(v))] : v \in AxisValues}
    \cup {[kind |-> "json", values |-> v, counts |-> Ones(Len(v) - 1)] :
             v \in AxisValues \ {<<>>}}

AxisFileSystems ==
    {<<o>> \o alts \o [j \in 1..(Len(folders) - AxisFiles) |-> Missing] :
        o \in {Missing} \cup AxisOriginals,
        alts \in [1..(AxisFiles - 1) -> {Missing} \cup AxisAlternatives]}

InitAxis == /\ entry = "plot_all_folders_comparison"
            /\ files \in AxisFileSystems
            /\ pc = "first pass"
            /\ idx = 1
            /\ all_data = <<>>
            /\ global_min = None
            /\ global_max = None
            /\ errors = <<>>
            /\ plotted = <<>>
            /\ raised = "none"
            /\ OrigIdle
            /\ BarsIdle
            /\ ToolsIdle

SpecAxis == InitAxis /\ [][NextCmp]_vars

----------------------------------------------------------------------------
(* Properties of plot_original_histogram, checked under Spec *)

StrictlyIncreasing(s) == \A i \in 1..(Len(s) - 1) : s[i] < s[i + 1]

\* the CanonicalHistogram of the data model: strictly increasing boundaries,
\* one more count than boundaries, and Min / Max (when given) bounding them
Canonical(d) ==
    /\ StrictlyIncreasing(d.Boundaries)
    /\ Len(d.Counts) = Len(d.Boundaries) + 1
    /\ d.Boundaries # <<>> =>
          /\ d.Min # None => Val(d.Min) <= d.Boundaries[1]
          /\ d.Max # None => Val(d.Max) >= d.Boundaries[Len(d.Boundaries)]
    /\ (d.Boundaries = <<>> /\ d.Min # None /\ d.Max # None) => Val(d.Min) <= Val(d.Max)

Malformed(d) ==
    \/ ~StrictlyIncreasing(d.Boundaries)
    \/ Len(d.Counts) # Len(d.Boundaries) + 1

RightEdge(r, i) == r.left_edges[i] + r.widths[i]

\* C1: for a canonical histogram with k >= 1 boundaries and k+1 counts, edge
\* inference yields exactly k+1 intervals of non-negative width, the right edge
\* of each being the left edge of the next, starting at Min (or at an edge
\* extrapolated below the first boundary) and ending at Max (or at an edge
\* extrapolated above the last boundary).
C1_CanonicalPartition ==
    (orig_result # NoResult /\ Len(data.Boundaries) >= 1 /\ Canonical(data)) =>
        LET r == orig_result
            k == Len(data.Boundaries)
        IN  /\ r.exc = "none"
            /\ Len(r.left_edges) = k + 1
            /\ Len(r.widths) = k + 1
            /\ \A i \in 1..(k + 1) : r.widths[i] >= 0
            /\ \A i \in 1..k : RightEdge(r, i) = r.left_edges[i + 1]
            /\ \A i \in 1..k : RightEdge(r, i) = data.Boundaries[i]
            /\ IF data.Min # None THEN r.left_edges[1] = Val(data.Min)
                                  ELSE r.left_edges[1] < data.Boundaries[1]
            /\ IF data.Max # None THEN RightEdge(r, k + 1) = Val(data.Max)
                                  ELSE RightEdge(r, k + 1) > data.Boundaries[k]
            /\ SumSeq(r.widths) = RightEdge(r, k + 1) - r.left_edges[1]

C1_Witness ==
    /\ orig_result # NoResult
    /\ Canonical(data)
    /\ Len(data.Boundaries) = 3
    /\ data.Min = None
    /\ data.Max # None
    /\ orig_result.exc = "none"
    /\ Len(orig_result.left_edges) = 4

\* C4: a malformed canonical histogram (boundaries not strictly increasing, or
\* a Counts length other than len(Boundaries)+1) is rejected: edge inference
\* fails and hands no bar geometry to the renderer.  Any exception is accepted
\* here as the rejection, not only one named InvalidHistogramShape.
C4_MalformedRejected ==
    (orig_result # NoResult /\ Malformed(data)) =>
        /\ orig_result.exc # "none"
        /\ orig_result.left_edges = <<>>

\* the input of the single-bucket placeholder: no boundaries and Min or Max absent
DegenerateInput(d) == d.Boundaries = <<>> /\ (d.Min = None \/ d.Max = None)

HasDegenerateFlag(r) == "degenerate" \in DOMAIN r /\ r.degenerate = TRUE

\* C8: the placeholder interval produced for a single bucket without boundaries
\* and without Min/Max is flagged degenerate, so that the result differs from
\* the result for real data: here, from the result for the same counts with
\* Min = -10 and Max = 10.
C8_DegenerateFlagged ==
    (orig_result # NoResult /\ DegenerateInput(data)) =>
        \/ HasDegenerateFlag(orig_result)
        \/ orig_result # plot_original_histogram(
                            [data EXCEPT !.Min = Some(0 - 10), !.Max = Some(10)])

\* C9: with no boundaries and one count, edge inference does not fail and
\* yields exactly one interval: left edge Min and width Max - Min when both are
\* present, and otherwise left edge -10 and width 20.
C9_SingleBucket ==
    (orig_result # NoResult /\ data.Boundaries = <<>> /\ Len(data.Counts) = 1) =>
        /\ orig_result.exc = "none"
        /\ Len(orig_result.left_edges) = 1
        /\ Len(orig_result.widths) = 1
        /\ IF data.Min # None /\ data.Max # None
           THEN /\ orig_result.left_edges[1] = Val(data.Min)
                /\ orig_result.widths[1] = Val(data.Max) - Val(data.Min)
           ELSE /\ orig_result.left_edges[1] = 0 - 10
                /\ orig_result.widths[1] = 20

C9_Witness ==
    /\ orig_result # NoResult
    /\ data.Boundaries = <<>>
    /\ Len(data.Counts) = 1
    /\ data.Min # None
    /\ data.Max = None
    /\ orig_result.left_edges = <<0 - 10>>
    /\ orig_result.widths = <<20>>

----------------------------------------------------------------------------
(* Properties of plot_cw_histogram_bars, checked under Spec *)

\* smallest difference between two distinct representative values
MinGapOf(S) ==
    LET D == {b - a : <<a, b>> \in {q \in S \X S : q[1] < q[2]}}
    IN  CHOOSE d \in D : \A e \in D : d <= e

SetMin(S) == CHOOSE x \in S : \A y \in S : x <= y
SetMax(S) == CHOOSE x \in S : \A y \in S : x >= y

\* C2: for n >= 2 distinct values and a domain with domain_min <= v_0 and
\* domain_max >= v_{n-1}, every bar width is between 0 and 0.8 * min_gap and no
\* two bars [v_i - width_i/2, v_i + width_i/2] overlap (positions in twentieths:
\* 20 * v_i -/+ width10_i).
C2_NoOverlap ==
    (/\ bars_result # NoBars
     /\ Len(histogram) >= 2
     /\ histogram_min <= SetMin(KeySet(histogram))
     /\ histogram_max >= SetMax(KeySet(histogram))) =>
        LET r == bars_result
            n == Len(histogram)
        IN  /\ r.exc = "none"
            /\ Len(r.values) = n
            /\ Len(r.widths10) = n
            /\ \A i \in 1..n : /\ r.widths10[i] >= 0
                               /\ r.widths10[i] <= 8 * MinGapOf(KeySet(histogram))
            /\ \A i, j \in 1..n :
                  r.values[i] < r.values[j] =>
                      20 * r.values[i] + r.widths10[i] <= 20 * r.values[j] - r.widths10[j]

C2_Witness ==
    /\ bars_result # NoBars
    /\ Len(histogram) = 3
    /\ Keys(histogram) = <<3, 0, 1>>
    /\ histogram_min = 0 - 1
    /\ histogram_max = MaxVal + 1
    /\ bars_result.values = <<0, 1, 3>>
    /\ bars_result.widths10 = <<8, 8, 8>>

----------------------------------------------------------------------------
(* Properties of plot_all_folders_comparison, checked under SpecCmp *)

Terminated == pc \in {"saved", "raised"}

FolderIndex(name) == CHOOSE i \in 1..Len(folders) : folders[i] = name

\* the Counts / counts array of the file of folder i
InputCounts(i) == IF i = 1 THEN files[i].Counts ELSE files[i].counts

Reported(i) == \E j \in 1..Len(errors) : errors[j][1] = folders[i]
Drawn(i) == \E j \in 1..Len(plotted) : plotted[j].folder = folders[i]

HasDuplicates(s) == \E i, j \in 1..Len(s) : i < j /\ s[i] = s[j]

\* C3: the total count shown for every representation drawn by the comparison
\* equals the sum of the counts array of its input file.
C3_MassConserved ==
    \A j \in 1..Len(plotted) :
        LET i == FolderIndex(plotted[j].folder)
            total == IF i = 1 THEN plotted[j].orig.total_count
                              ELSE plotted[j].bars.total_count
        IN  total = SumSeq(InputCounts(i))

\* C5: when the comparison completes, a sparse representation whose values
\* array repeats a value has been reported as failed and has not been drawn
\* (any exception is accepted as the failure).
C5_DuplicateRejected ==
    pc = "saved" =>
        \A i \in 2..Len(folders) :
            (files[i].kind = "json" /\ HasDuplicates(files[i].values)) =>
                Reported(i) /\ ~Drawn(i)

\* C6: when the comparison completes, an empty sparse representation it met
\* has been reported as failed, not dropped silently.
C6_EmptyReported ==
    pc = "saved" =>
        \A i \in 2..Len(folders) :
            (files[i].kind = "json" /\ files[i].values = <<>>) => Reported(i)

\* loading the file of folder i in the first pass succeeds
LoadSucceeds(i) ==
    /\ files[i].kind = "json"
    /\ i > 1 => (files[i].values # <<>> /\ Len(files[i].counts) >= Len(files[i].values))

\* loading raises (corrupt file, counts shorter than values)
LoadFails(i) ==
    \/ files[i].kind = "corrupt"
    \/ /\ i > 1
       /\ files[i].kind = "json"
       /\ files[i].values # <<>>
       /\ Len(files[i].counts) < Len(files[i].values)

\* laying out the loaded representation of folder i succeeds
LayoutSucceeds(i) == i = 1 => plot_original_histogram(files[i]).exc = "none"

\* C7: when a representation fails to load or to lay out, the comparison
\* still ends with every representation that loads and lays out drawn, and
\* with the failing one reported.  Stated for comparisons in which at least two
\* representations load, so that more than one subplot exists.
C7_FailureIsolated ==
    (Terminated /\ Len(all_data) >= 2) =>
        \A i \in 1..Len(folders) :
            /\ (LoadSucceeds(i) /\ LayoutSucceeds(i)) => Drawn(i)
            /\ (LoadFails(i) \/ (LoadSucceeds(i) /\ ~LayoutSucceeds(i))) => Reported(i)

----------------------------------------------------------------------------
(* Properties of the shared axis, checked under SpecAxis *)

Range(s) == {s[j] : j \in 1..Len(s)}

\* the values arrays read from the alternative folders
AlternativeValues ==
    UNION {Range(files[j].values) : j \in {i \in 2..Len(folders) : files[i].kind = "json"}}

\* what the canonical file contributes to the lower and to the upper end
CanonicalLow ==
    IF files[1].kind # "json" THEN {}
    ELSE Range(files[1].Boundaries)
         \cup (IF files[1].Min # None THEN {Val(files[1].Min)} ELSE {})

CanonicalHigh ==
    IF files[1].kind # "json" THEN {}
    ELSE Range(files[1].Boundaries)
         \cup (IF files[1].Max # None THEN {Val(files[1].Max)} ELSE {})

\* C11: every subplot of the comparison gets the same x limits
\* [lo - 0.05 * (hi - lo), hi + 0.05 * (hi - lo)], lo being the minimum over the
\* canonical Min (if present), the canonical boundaries and the values of every
\* alternative representation, hi the corresponding maximum (limits in
\* twentieths: 20 * lo - (hi - lo) and 20 * hi + (hi - lo)).
C11_SharedAxis ==
    \A j \in 1..Len(plotted) :
        LET lo == SetMin(CanonicalLow \cup AlternativeValues)
            hi == SetMax(CanonicalHigh \cup AlternativeValues)
        IN  plotted[j].xlim = <<Some(20 * lo - (hi - lo)), Some(20 * hi + (hi - lo))>>

C11_Witness ==
    /\ pc = "saved"
    /\ Len(plotted) = 3
    /\ files[1].Min = Some(2)
    /\ files[1].Max = None
    /\ files[1].Boundaries = <<2>>
    /\ SetMin(AlternativeValues) = 1
    /\ \A j \in 1..3 : plotted[j].xlim = <<Some(19), Some(41)>>

----------------------------------------------------------------------------
(* Properties of the bucket edges, checked under Spec *)

\* C12: with at least one boundary and one more count than boundaries, the
\* first bucket ends at boundaries[0] and starts at Min when Min is present,
\* else at boundaries[0] - (boundaries[1] - boundaries[0]) when there are at
\* least two boundaries and at boundaries[0] - 10 when there is exactly one;
\* every interior bucket i is exactly [boundaries[i-1], boundaries[i]].
C12_FirstAndInterior ==
    (/\ orig_result # NoResult
     /\ Len(data.Boundaries) >= 1
     /\ Len(data.Counts) = Len(data.Boundaries) + 1) =>
        LET r == orig_result
            b == data.Boundaries
            k == Len(data.Boundaries)
        IN  /\ r.exc = "none"
            /\ RightEdge(r, 1) = b[1]
            /\ r.left_edges[1] = IF data.Min # None THEN Val(data.Min)
                                 ELSE IF k >= 2 THEN b[1] - (b[2] - b[1])
                                 ELSE b[1] - 10
            /\ \A i \in 2..k : r.left_edges[i] = b[i - 1] /\ RightEdge(r, i) = b[i]

C12_Witness ==
    /\ orig_result # NoResult
    /\ data.Boundaries = <<1, 3, 2>>
    /\ Len(data.Counts) = 4
    /\ data.Min = None
    /\ orig_result.left_edges[1] = 0 - 1
    /\ orig_result.left_edges[3] = 3
    /\ orig_result.widths[3] = 0 - 1

\* C13 as stated: with at least one boundary, strictly increasing boundaries
\* and one more count than boundaries, the last bucket starts at the last
\* boundary and ends at Max when Max is present, else at the last boundary plus
\* the gap between boundaries[0] and boundaries[1] when there are at least two
\* boundaries, else plus 10.
C13_LastByFirstGap ==
    (/\ orig_result # NoResult
     /\ Len(data.Boundaries) >= 1
     /\ StrictlyIncreasing(data.Boundaries)
     /\ Len(data.Counts) = Len(data.Boundaries) + 1) =>
        LET r == orig_result
            b == data.Boundaries
            k == Len(data.Boundaries)
        IN  /\ r.exc = "none"
            /\ r.left_edges[k + 1] = b[k]
            /\ RightEdge(r, k + 1) = IF data.Max # None THEN Val(data.Max)
                                     ELSE IF k >= 2 THEN b[k] + (b[2] - b[1])
                                     ELSE b[k] + 10

\* C13 amended: as above, but the extrapolation uses the gap between the last
\* two boundaries, boundaries[k-1] - boundaries[k-2].
C13_LastByLastGap ==
    (/\ orig_result # NoResult
     /\ Len(data.Boundaries) >= 1
     /\ Len(data.Counts) = Len(data.Boundaries) + 1) =>
        LET r == orig_result
            b == data.Boundaries
            k == Len(data.Boundaries)
        IN  /\ r.exc = "none"
            /\ r.left_edges[k + 1] = b[k]
            /\ RightEdge(r, k + 1) = IF data.Max # None THEN Val(data.Max)
                                     ELSE IF k >= 2 THEN b[k] + (b[k] - b[k - 1])
                                     ELSE b[k] + 10

C13_Witness ==
    /\ orig_result # NoResult
    /\ data.Boundaries = <<0, 1, 3>>
    /\ Len(data.Counts) = 4
    /\ data.Max = None
    /\ orig_result.left_edges[4] = 3
    /\ orig_result.widths[4] = 2

----------------------------------------------------------------------------
(* Properties of the sparse bar widths, checked under Spec *)

\* the candidate width of bar i (1-based) of the ascending values v on the
\* domain [lo, hi], in tenths
Candidate10(v, lo, hi, i) ==
    IF i = 1 THEN 10 * (v[1] - lo) + 5 * (v[2] - v[1])
    ELSE IF i = Len(v) THEN 5 * (v[i] - v[i - 1]) + 10 * (hi - v[i])
    ELSE 5 * (v[i] - v[i - 1]) + 5 * (v[i + 1] - v[i])

\* C14: for n >= 2 values the width of bar i is min(candidate_i, 0.8 * min_gap),
\* with candidate_0 = (v_0 - domain_min) + (v_1 - v_0)/2,
\* candidate_{n-1} = (v_{n-1} - v_{n-2})/2 + (domain_max - v_{n-1}) and the
\* sum of the two adjacent half gaps for an interior bar; the values 1, 2, 10
\* on the domain [0, 12] give the bar at 10 the width 0.8.
C14_WidthFormula ==
    (bars_result # NoBars /\ Len(histogram) >= 2) =>
        LET v == AscendingSeq(KeySet(histogram))
            cap == 8 * MinGapOf(KeySet(histogram))
        IN  /\ bars_result.exc = "none"
            /\ bars_result.values = v
            /\ Len(bars_result.widths10) = Len(v)
            /\ \A i \in 1..Len(v) :
                  bars_result.widths10[i]
                      = Min2(Candidate10(v, histogram_min, histogram_max, i), cap)
            /\ plot_cw_histogram_bars(<< <<1, 1>>, <<2, 1>>, <<10, 1>> >>, 0, 12).widths10[3] = 8

C14_Witness ==
    /\ bars_result # NoBars
    /\ KeySet(histogram) = {0, 1, 3}
    /\ histogram_min = 0
    /\ histogram_max = MaxVal + 1
    /\ bars_result.values = <<0, 1, 3>>
    /\ 5 * (3 - 1) + 10 * (histogram_max - 3) > 8
    /\ bars_result.widths10 = <<5, 8, 8>>

\* C15: for a single value exactly one bar is produced, centred at the value,
\* of width 0.8 * (domain_max - domain_min) and with the value's count; the
\* minimum gap is not computed (no exception is raised).
C15_SingleValue ==
    (bars_result # NoBars /\ Len(histogram) = 1) =>
        /\ bars_result.exc = "none"
        /\ bars_result.values = <<histogram[1][1]>>
        /\ bars_result.counts = <<histogram[1][2]>>
        /\ bars_result.widths10 = <<8 * (histogram_max - histogram_min)>>

C15_Witness ==
    /\ bars_result # NoBars
    /\ histogram = << <<2, 2>> >>
    /\ histogram_min = 0 - 1
    /\ histogram_max = MaxVal + 1
    /\ bars_result.values = <<2>>
    /\ bars_result.widths10 = <<8 * (MaxVal + 2)>>

----------------------------------------------------------------------------
(* Non-negative bucket widths, checked under Spec *)

\* C16 as stated: for at least one boundary, strictly increasing boundaries and
\* one more count than boundaries, every bucket width is >= 0 whatever Min and
\* Max are supplied.
C16_NonNegativeAnyMinMax ==
    (/\ orig_result # NoResult
     /\ Len(data.Boundaries) >= 1
     /\ StrictlyIncreasing(data.Boundaries)
     /\ Len(data.Counts) = Len(data.Boundaries) + 1) =>
        /\ orig_result.exc = "none"
        /\ \A i \in 1..Len(orig_result.widths) : orig_result.widths[i] >= 0

\* C16 amended: for strictly increasing boundaries, one more count than
\* boundaries, and Min and Max that, when supplied, bound the boundaries
\* (Min <= boundaries[0], Max >= the last boundary, Min <= Max when there is no
\* boundary), every bucket width is >= 0.
C16_NonNegativeWidths ==
    (orig_result # NoResult /\ Canonical(data)) =>
        /\ orig_result.exc = "none"
        /\ Len(orig_result.widths) = Len(data.Counts)
        /\ \A i \in 1..Len(orig_result.widths) : orig_result.widths[i] >= 0

C16_Witness ==
    /\ orig_result # NoResult
    /\ data.Boundaries = <<1, 2>>
    /\ Len(data.Counts) = 3
    /\ data.Min = Some(1)
    /\ data.Max = Some(MaxVal + 1)
    /\ orig_result.widths = <<0, 1, MaxVal - 1>>

----------------------------------------------------------------------------
(* Order of the sparse bars, checked under Spec *)

\* the same mapping inserted in ascending order of its keys
InsertedAscending(h) ==
    LET v == AscendingSeq(KeySet(h))
    IN  [j \in 1..Len(v) |-> <<v[j], Get(h, v[j])>>]

\* C17: whatever the insertion order of the mapping, the bars are laid out in
\* ascending order of the representative values, each bar carries the count of
\* its own value, and the widths are those of the mapping inserted in ascending
\* order (gaps and widths are computed after sorting).
C17_SortedBeforeLayout ==
    (bars_result # NoBars /\ Len(histogram) >= 1) =>
        /\ bars_result.exc = "none"
        /\ StrictlyIncreasing(bars_result.values)
        /\ Range(bars_result.values) = KeySet(histogram)
        /\ Len(bars_result.counts) = Len(bars_result.values)
        /\ \A j \in 1..Len(bars_result.values) :
              bars_result.counts[j] = Get(histogram, bars_result.values[j])
        /\ bars_result.widths10
              = plot_cw_histogram_bars(InsertedAscending(histogram),
                                       histogram_min, histogram_max).widths10

C17_Witness ==
    /\ bars_result # NoBars
    /\ histogram = << <<3, 1>>, <<0, 2>>, <<1, 1>> >>
    /\ histogram_min = 0
    /\ histogram_max = 3
    /\ bars_result.values = <<0, 1, 3>>
    /\ bars_result.counts = <<2, 1, 1>>
    /\ bars_result.widths10 = <<5, 8, 8>>

----------------------------------------------------------------------------
(* The shared axis and the bars, checked under SpecCmp *)

\* the files are as the data model wants them: a canonical original and
\* alternatives with ascending distinct values and as many counts as values
WellFormedFiles ==
    /\ files[1].kind = "json"
    /\ Canonical(files[1])
    /\ \A i \in 2..Len(folders) :
          \/ files[i].kind = "missing"
          \/ /\ files[i].kind = "json"
             /\ files[i].values # <<>>
             /\ StrictlyIncreasing(files[i].values)
             /\ Len(files[i].counts) = Len(files[i].values)

\* a point x (in twentieths) lies within the x limits of subplot p
WithinAxis(p, x) == Val(p.xlim[1]) <= x /\ x <= Val(p.xlim[2])

\* C18: after a comparison of well-formed files, the shared axis range contains
\* every bar drawn: both edges of every canonical bucket (extrapolated edges
\* and the -10..10 placeholder included) and both ends
\* v_i - width_i/2, v_i + width_i/2 of every sparse bar.
C18_AxisContainsBars ==
    (pc = "saved" /\ WellFormedFiles) =>
        \A j \in 1..Len(plotted) :
            LET p == plotted[j]
            IN  IF p.orig # NoResult
                THEN \A i \in 1..Len(p.orig.left_edges) :
                        /\ WithinAxis(p, 20 * p.orig.left_edges[i])
                        /\ WithinAxis(p, 20 * (p.orig.left_edges[i] + p.orig.widths[i]))
                ELSE \A i \in 1..Len(p.bars.values) :
                        /\ WithinAxis(p, 20 * p.bars.values[i] - p.bars.widths10[i])
                        /\ WithinAxis(p, 20 * p.bars.values[i] + p.bars.widths10[i])

----------------------------------------------------------------------------
(* Interior and edge bars, checked under Spec *)

\* C19: for n >= 3 values every interior bar has width exactly 0.8 * min_gap,
\* and when domain_min <= v_0 and domain_max >= v_{n-1} both edge bars have a
\* width between 0.5 * min_gap and 0.8 * min_gap (widths in tenths).
C19_InteriorAndEdgeBars ==
    (bars_result # NoBars /\ Len(histogram) >= 3) =>
        LET n == Len(histogram)
            min_gap == MinGapOf(KeySet(histogram))
            w == bars_result.widths10
        IN  /\ bars_result.exc = "none"
            /\ Len(w) = n
            /\ \A i \in 2..(n - 1) : w[i] = 8 * min_gap
            /\ (/\ histogram_min <= SetMin(KeySet(histogram))
                /\ histogram_max >= SetMax(KeySet(histogram))) =>
                   /\ 5 * min_gap <= w[1] /\ w[1] <= 8 * min_gap
                   /\ 5 * min_gap <= w[n] /\ w[n] <= 8 * min_gap

C19_Witness ==
    /\ bars_result # NoBars
    /\ KeySet(histogram) = {0, 2, 3}
    /\ histogram_min = 0
    /\ histogram_max = 3
    /\ bars_result.widths10 = <<8, 8, 5>>

----------------------------------------------------------------------------
(* The layout domain used by the comparison, checked under SpecAxis *)

\* C20: the comparison hands (min(values), max(values)) of each alternative to
\* the sparse layout as its domain; so a representation with one value is drawn
\* with a bar of width 0, and with n >= 2 values the first bar has width
\* min((v_1 - v_0)/2, 0.8 * min_gap) and the last one
\* min((v_{n-1} - v_{n-2})/2, 0.8 * min_gap) (widths in tenths).
C20_DomainIsValueRange ==
    /\ \A j \in 1..Len(all_data) :
          all_data[j].orig_data = NoData =>
              LET S == Range(files[FolderIndex(all_data[j].folder)].values)
              IN  all_data[j].hist_range = <<SetMin(S), SetMax(S)>>
    /\ \A j \in 1..Len(plotted) :
          plotted[j].orig = NoResult =>
              LET S == Range(files[FolderIndex(plotted[j].folder)].values)
                  v == AscendingSeq(S)
                  n == Cardinality(S)
                  w == plotted[j].bars.widths10
              IN  /\ plotted[j].bars.exc = "none"
                  /\ Len(w) = n
                  /\ IF n = 1 THEN w = <<0>>
                     ELSE /\ w[1] = Min2(5 * (v[2] - v[1]), 8 * MinGapOf(S))
                          /\ w[n] = Min2(5 * (v[n] - v[n - 1]), 8 * MinGapOf(S))

C20_Witness ==
    /\ pc = "saved"
    /\ Len(plotted) = 2
    /\ files[2].values = <<2>>
    /\ files[3].values = <<1, 2>>
    /\ plotted[1].folder = "cwagent"
    /\ plotted[1].bars.widths10 = <<0>>
    /\ plotted[2].folder = "even"
    /\ plotted[2].bars.widths10 = <<5, 5>>

----------------------------------------------------------------------------
(* tool/opamp_server/streamlit-ui/app.py: one script run per user interaction *)

\* s.startswith(p), strings being sequences of characters and tokens
IsPrefix(p, s) == Len(p) <= Len(s) /\ SubSeq(s, 1, Len(p)) = p

\* f"{instance_id} (Started: {started_at})"
Separator == " ("
OptionOf(a) == a.InstanceIdStr \o <<Separator, "Started: ", a.StartedAt, ")">>

\* option.split(" (")[0]
SplitHead(option) ==
    LET hits == {i \in 1..Len(option) : option[i] = Separator}
    IN  IF hits = {} THEN option ELSE SubSeq(option, 1, SetMinOf(hits) - 1)

AgentOptions(list) == [j \in 1..Len(list) |-> OptionOf(list[j])]

\* lines 53-58: the index (0-based) of the first option that starts with the
\* stored instance ID, 0 when nothing is stored or nothing matches
CurrentIndex(options, stored) ==
    LET hits == {i \in 1..Len(options) : IsPrefix(Val(stored), options[i])}
    IN  IF stored = None \/ hits = {} THEN 0 ELSE SetMinOf(hits) - 1

\* instance IDs: the non-empty strings over two characters, up to DashMaxIdLen long
InstanceIds == SeqsUpTo({"a", "b"}, DashMaxIdLen) \ {<<>>}

AgentRecords == [InstanceIdStr : InstanceIds, StartedAt : {"t1"}, EffectiveConfig : {<<>>}]

\* what GET /api/agents may return, in dict order
AgentLists == SeqsUpTo(AgentRecords, DashMaxAgents)

\* one run of the script with the agents fetched, the option the select box
\* returns (the default index, the user's pick or the value the widget kept),
\* the button that triggered the run and the outcome of the stop request
RunApp(list, choice, button, stop_ok) ==
    /\ entry = "app.py"
    /\ agents' = list
    /\ IF list = <<>> THEN
           /\ dash' = [run |-> "no agents"]
           /\ UNCHANGED <<selected_agent_id, sent>>
       ELSE
           LET agent_options == AgentOptions(list)
               current_index == CurrentIndex(agent_options, selected_agent_id)
               selected_agent_display == agent_options[choice + 1]
               selected_agent == SplitHead(selected_agent_display)
           IN  /\ selected_agent_id' = Some(selected_agent)
               /\ dash' = [run |-> "rendered",
                           stored |-> selected_agent_id,
                           current_index |-> current_index,
                           selected_agent_display |-> selected_agent_display,
                           selected_agent |-> selected_agent,
                           button |-> button,
                           message |-> IF button # "stop" THEN "none"
                                       ELSE IF stop_ok THEN "Stop command sent!"
                                       ELSE "Failed to stop"]
               /\ sent' = IF button = "stop" /\ stop_ok
                          THEN Append(sent, <<"stop_agent", selected_agent>>)
                          ELSE sent
    /\ UNCHANGED <<entry, origVars, barsVars, cmpVars, metricsVars, restVars>>

\* the first run, the Refresh button or a new pick in the select box
Rerun ==
    \E list \in AgentLists, choice \in 0..(DashMaxAgents - 1) :
        /\ choice < Len(list) \/ (list = <<>> /\ choice = 0)
        /\ RunApp(list, choice, "none", TRUE)

\* the Start button of the page drawn by the last run: st.rerun()
PressStart ==
    \E list \in AgentLists, choice \in 0..(DashMaxAgents - 1) :
        /\ dash.run = "rendered"
        /\ choice < Len(list)
        /\ RunApp(list, choice, "start", TRUE)

\* the Stop button: client.stop_agent(selected_agent), then st.rerun() or st.error
PressStop ==
    \E list \in AgentLists, choice \in 0..(DashMaxAgents - 1), stop_ok \in BOOLEAN :
        /\ dash.run = "rendered"
        /\ Len(sent) < DashMaxSent
        /\ choice < Len(list)
        /\ RunApp(list, choice, "stop", stop_ok)

\* client.get_agents() raises: "Failed to connect to OpAMP server"
ServerDown ==
    /\ entry = "app.py"
    /\ dash' = [run |-> "error"]
    /\ UNCHANGED <<entry, agents, selected_agent_id, sent, origVars, barsVars, cmpVars,
                   metricsVars, restVars>>

InitDash == /\ entry = "app.py"
            /\ DashIdle
            /\ MetricsIdle
            /\ RestIdle
            /\ OrigIdle
            /\ BarsIdle
            /\ CmpIdle

NextDash == Rerun \/ PressStart \/ PressStop \/ ServerDown

SpecDash == InitDash /\ [][NextDash]_vars

----------------------------------------------------------------------------
(* Properties of the dashboard, checked under SpecDash *)

\* C21: in a run that finds the agent whose instance ID is stored in
\* session_state.selected_agent_id still in the agent list, the index computed
\* for the select box is the index of an agent with that instance ID.
C21_SelectionPreserved ==
    (/\ dash.run = "rendered"
     /\ dash.stored # None
     /\ \E j \in 1..Len(agents) : agents[j].InstanceIdStr = Val(dash.stored)) =>
        agents[dash.current_index + 1].InstanceIdStr = Val(dash.stored)

\* C23: a run triggered by the Start button has posted start_agent for the
\* selected agent, as a run triggered by the Stop button that reports
\* "Stop command sent!" has posted stop_agent for the selected agent.
C23_ButtonsSendCommands ==
    /\ (dash.run = "rendered" /\ dash.button = "start") =>
          /\ sent # <<>>
          /\ sent[Len(sent)] = <<"start_agent", dash.selected_agent>>
    /\ (dash.run = "rendered" /\ dash.button = "stop" /\ dash.message = "Stop command sent!") =>
          /\ sent # <<>>
          /\ sent[Len(sent)] = <<"stop_agent", dash.selected_agent>>

----------------------------------------------------------------------------
(* tool/opamp_server/streamlit-ui/pages/2_Metrics.py: a user interaction sets
   a widget and asks for a script run; the run is one step *)

\* the options of the agent select box, by position
MetricsAgents == 1..MetricsMaxAgents

\* the names offered by client.get_available_metrics
MetricNames == 1..MetricsMaxNames

Presets == {"30m", "1h", "6h", "24h"}

CustomTexts == {"", "2h", "45m"}

\* lines 59-64: what the run stores for the agent select box value sel
AgentChange_keepMetrics(prev, sel, metrics) ==
    [previous_agent |-> Some(sel), metrics_selector |-> metrics]

AgentChange(prev, sel, metrics) ==
    IF prev = None THEN [previous_agent |-> Some(sel), metrics_selector |-> metrics]
    ELSE IF Val(prev) # sel THEN [previous_agent |-> Some(sel), metrics_selector |-> {}]
    ELSE [previous_agent |-> prev, metrics_selector |-> metrics]

\* lines 73-88: st.session_state.time_filter after the preset buttons and the
\* custom field
StoredFilter_presetWins(stored, button, custom) ==
    IF button # "none" THEN Some(button)
    ELSE IF custom # "" THEN Some(custom)
    ELSE stored

StoredFilter(stored, button, custom) ==
    IF custom # "" THEN Some(custom)
    ELSE IF button # "none" THEN Some(button)
    ELSE stored

\* line 90: st.session_state.get("time_filter", "1h")
GetFilter(stored) == IF stored = None THEN "1h" ELSE Val(stored)

\* the first load of the page, or a plain reload
Reload ==
    /\ entry = "Metrics.py"
    /\ mpc = "idle"
    /\ mpc' = "rerun"
    /\ UNCHANGED <<agent_selector, previous_agent, metrics_selector, time_filter,
                   custom_time, pressed, last_preset, page>>
    /\ UNCHANGED <<entry, origVars, barsVars, cmpVars, dashVars, restVars>>

SelectAgent ==
    /\ entry = "Metrics.py"
    /\ mpc = "idle"
    /\ page.run = "rendered"
    /\ \E a \in MetricsAgents \ {agent_selector} : agent_selector' = a
    /\ mpc' = "rerun"
    /\ UNCHANGED <<previous_agent, metrics_selector, time_filter, custom_time, pressed,
                   last_preset, page>>
    /\ UNCHANGED <<entry, origVars, barsVars, cmpVars, dashVars, restVars>>

PickMetrics ==
    /\ entry = "Metrics.py"
    /\ mpc = "idle"
    /\ page.run = "rendered"
    /\ \E m \in (SUBSET MetricNames) \ {metrics_selector} : metrics_selector' = m
    /\ mpc' = "rerun"
    /\ UNCHANGED <<agent_selector, previous_agent, time_filter, custom_time, pressed,
                   last_preset, page>>
    /\ UNCHANGED <<entry, origVars, barsVars, cmpVars, dashVars, restVars>>

PressPreset ==
    /\ entry = "Metrics.py"
    /\ mpc = "idle"
    /\ page.run = "rendered"
    /\ \E b \in Presets : pressed' = b /\ last_preset' = b
    /\ mpc' = "rerun"
    /\ UNCHANGED <<agent_selector, previous_agent, metrics_selector, time_filter,
                   custom_time, page>>
    /\ UNCHANGED <<entry, origVars, barsVars, cmpVars, dashVars, restVars>>

TypeCustom ==
    /\ entry = "Metrics.py"
    /\ mpc = "idle"
    /\ page.run = "rendered"
    /\ \E t \in CustomTexts \ {custom_time} : custom_time' = t
    /\ mpc' = "rerun"
    /\ UNCHANGED <<agent_selector, previous_agent, metrics_selector, time_filter,
                   pressed, last_preset, page>>
    /\ UNCHANGED <<entry, origVars, barsVars, cmpVars, dashVars, restVars>>

\* one run of the script with agents connected
RenderMetrics ==
    /\ entry = "Metrics.py"
    /\ mpc = "rerun"
    /\ LET selected_agent_display == agent_selector
           change == AgentChange(previous_agent, selected_agent_display, metrics_selector)
           stored == StoredFilter(time_filter, pressed, custom_time)
           selected_metrics == change.metrics_selector
       IN  /\ previous_agent' = change.previous_agent
           /\ metrics_selector' = change.metrics_selector
           /\ time_filter' = stored
           /\ page' = [run |-> "rendered",
                       recorded |-> previous_agent,
                       selected_agent_display |-> selected_agent_display,
                       time_filter |-> GetFilter(stored),
                       selected_metrics |-> selected_metrics,
                       time_series |-> {<<m, GetFilter(stored)>> : m \in selected_metrics},
                       current_values |-> {<<m, "30m">> : m \in selected_metrics}]
    /\ pressed' = "none"
    /\ mpc' = "idle"
    /\ UNCHANGED <<agent_selector, custom_time, last_preset>>
    /\ UNCHANGED <<entry, origVars, barsVars, cmpVars, dashVars, restVars>>

InitMetrics == /\ entry = "Metrics.py"
               /\ MetricsIdle
               /\ DashIdle
               /\ RestIdle
               /\ OrigIdle
               /\ BarsIdle
               /\ CmpIdle

NextMetrics == Reload \/ SelectAgent \/ PickMetrics \/ PressPreset \/ TypeCustom \/ RenderMetrics

SpecMetrics == InitMetrics /\ [][NextMetrics]_vars

----------------------------------------------------------------------------
(* Properties of the Metrics page, checked under SpecMetrics *)

\* a step that is a run of the script
IsRender == mpc = "rerun" /\ mpc' = "idle"

\* C22: a run in which the selected agent differs from the agent recorded by
\* the previous run empties the metric selection before any metric is shown;
\* after every run previous_agent is the selected agent; a run with the
\* selected agent unchanged leaves the metric selection as it was.
C22_AgentChangeResets ==
    [][IsRender =>
          /\ previous_agent' = Some(agent_selector)
          /\ (previous_agent # None /\ Val(previous_agent) # agent_selector) =>
                /\ metrics_selector' = {}
                /\ page'.selected_metrics = {}
                /\ page'.time_series = {}
                /\ page'.current_values = {}
          /\ (previous_agent # None /\ Val(previous_agent) = agent_selector) =>
                /\ metrics_selector' = metrics_selector
                /\ page'.selected_metrics = metrics_selector]_vars

C22_Witness ==
    /\ mpc = "idle"
    /\ page.run = "rendered"
    /\ page.recorded = Some(1)
    /\ page.selected_agent_display = 2
    /\ previous_agent = Some(2)
    /\ metrics_selector = {}
    /\ page.selected_metrics = {}

\* C24 as stated: after a run the time filter of the time-series queries is
\* the custom text when the custom field is non-empty, otherwise the preset
\* pressed last, and "1h" when nothing was ever chosen; the Current Values
\* queries use "30m".
C24_CustomElseLastPreset ==
    (mpc = "idle" /\ page.run = "rendered") =>
        /\ custom_time # "" => page.time_filter = custom_time
        /\ (custom_time = "" /\ last_preset # "none") =>
               page.time_filter = last_preset
        /\ (custom_time = "" /\ last_preset = "none" /\ time_filter = None) =>
               page.time_filter = "1h"
        /\ \A q \in page.time_series : q[2] = page.time_filter
        /\ \A q \in page.current_values : q[2] = "30m"

\* C24 amended: in every run the time filter of the time-series queries is the
\* custom text when the custom field is non-empty (even if a preset was pressed
\* for that run), otherwise the preset pressed for that run, otherwise the
\* value an earlier run stored in session_state.time_filter, and "1h" when no
\* run stored one; the Current Values queries use "30m".
C24_CustomElsePresetElseStored ==
    [][IsRender =>
          /\ page'.time_filter = IF custom_time # "" THEN custom_time
                                 ELSE IF pressed # "none" THEN pressed
                                 ELSE IF time_filter # None THEN Val(time_filter)
                                 ELSE "1h"
          /\ page'.time_series = {<<m, page'.time_filter>> : m \in page'.selected_metrics}
          /\ page'.current_values = {<<m, "30m">> : m \in page'.selected_metrics}]_vars

\* the custom field was cleared after a preset had been pressed: the custom
\* text is still in force
C24_Witness ==
    /\ mpc = "idle"
    /\ page.run = "rendered"
    /\ custom_time = ""
    /\ last_preset = "6h"
    /\ page.time_filter = "2h"
    /\ page.time_series = {<<1, "2h">>}
    /\ page.current_values = {<<1, "30m">>}


----------------------------------------------------------------------------
(* tool/opamp_server/streamlit-ui/pages/1_Logs.py: one action is one run   *)
(* of the script.  An EffectiveConfig is the sequence of its lines; a line *)
(* is the key it contains and the text the script reads from it,           *)
(* parts[1].strip().strip('"').  The empty sequence is the empty string    *)
(* (or a missing EffectiveConfig key).                                     *)

LogsMaxAgents == 2   \* most agents returned by the server
LogsMaxLines == 2    \* most lines of an EffectiveConfig

ConfigLines ==
    {[key |-> "log_stream_name", name |-> "s1"],
     [key |-> "log_stream_name", name |-> "s2"],
     [key |-> "log_stream_name", name |-> ""],
     [key |-> "log_group_name", name |-> "g1"]}

Configs == SeqsUpTo(ConfigLines, LogsMaxLines)

\* agents.items() of n agents in dict order; the instance IDs are distinct
LogAgentLists(n) ==
    {[i \in 1..n |-> [InstanceIdStr |-> i, EffectiveConfig |-> c[i]]] :
        c \in [1..n -> Configs]}

\* the names on the log_stream_name lines of a config, in order
RECURSIVE StreamNames(_)
StreamNames(config) ==
    IF config = <<>> THEN <<>>
    ELSE IF Head(config).key = "log_stream_name"
         THEN <<Head(config).name>> \o StreamNames(Tail(config))
         ELSE StreamNames(Tail(config))

RECURSIVE GroupNames(_)
GroupNames(config) ==
    IF config = <<>> THEN <<>>
    ELSE IF Head(config).key = "log_group_name"
         THEN <<Head(config).name>> \o GroupNames(Tail(config))
         ELSE GroupNames(Tail(config))

\* lines 55-69: no break, the last matching line wins
AgentLogGroup(config) ==
    IF GroupNames(config) = <<>> THEN "Opamp_supervisor_log"
    ELSE GroupNames(config)[Len(GroupNames(config))]

AgentLogStream(config) ==
    IF StreamNames(config) = <<>> THEN ""
    ELSE StreamNames(config)[Len(StreamNames(config))]

\* Python's x in list
Contains(list, x) == \E i \in 1..Len(list) : list[i] = x

\* lines 91-94: append the non-empty names not yet collected
RECURSIVE AppendNew(_, _)
AppendNew(streams, names) ==
    IF names = <<>> THEN streams
    ELSE IF Head(names) # "" /\ ~Contains(streams, Head(names))
         THEN AppendNew(Append(streams, Head(names)), Tail(names))
         ELSE AppendNew(streams, Tail(names))

\* lines 80-94: the loop over all agents; it assigns the local effective_config
\* for every agent that has a config.  The result is the pair
\* <<available_streams, effective_config>> after the loop.
RECURSIVE CollectStreams(_, _, _)
CollectStreams(list, streams, effective_config) ==
    IF list = <<>> THEN <<streams, effective_config>>
    ELSE IF Head(list).EffectiveConfig # <<>>
         THEN CollectStreams(Tail(list),
                             AppendNew(streams, StreamNames(Head(list).EffectiveConfig)),
                             Head(list).EffectiveConfig)
         ELSE CollectStreams(Tail(list), streams, effective_config)

\* lines 104-113: the first log_stream_name line, then break
FirstStream(config) ==
    IF StreamNames(config) = <<>> THEN "" ELSE StreamNames(config)[1]

\* lines 101-131: the options of "Select log stream:" and its help text
StreamOptions(available_streams, agent_configured_stream) ==
    IF agent_configured_stream # ""
       /\ ~Contains(available_streams \o <<"Custom...">>, agent_configured_stream)
    THEN <<agent_configured_stream>> \o available_streams \o <<"Custom...">>
    ELSE available_streams \o <<"Custom...">>

\* one run of the script with the agents the server returns and the option
\* picked in "Select agent for logs:"
RunLogs(list, choice) ==
    /\ entry = "Logs.py"
    /\ log_agents' = list
    /\ log_choice' = choice
    /\ IF list = <<>>
       THEN logs' = [run |-> "no agents"]
       ELSE LET selected_agent_data == list[choice + 1]
                own_config == selected_agent_data.EffectiveConfig
                collected == CollectStreams(list, <<>>, own_config)
                available_streams == collected[1]
                effective_config == collected[2]
                agent_configured_stream == FirstStream(effective_config)
            IN  logs' = [run |-> "rendered",
                         selected_agent |-> selected_agent_data.InstanceIdStr,
                         agent_log_group |-> AgentLogGroup(own_config),
                         agent_log_stream |-> AgentLogStream(own_config),
                         available_streams |-> available_streams,
                         agent_configured_stream |->
                             IF available_streams = <<>> THEN ""
                             ELSE agent_configured_stream,
                         stream_options |->
                             IF available_streams = <<>> THEN <<>>
                             ELSE StreamOptions(available_streams, agent_configured_stream),
                         help |->
                             IF available_streams = <<>> THEN "none"
                             ELSE IF agent_configured_stream # ""
                                  THEN agent_configured_stream
                                  ELSE "Select any available stream"]
    /\ UNCHANGED <<entry, origVars, barsVars, cmpVars, dashVars, metricsVars,
                   clientVars, rotateVars>>

\* a page load, a refresh or a new pick in the agent select box
LogsRerun ==
    \E n \in 0..LogsMaxAgents :
        \E list \in LogAgentLists(n), choice \in 0..(LogsMaxAgents - 1) :
            /\ choice < Len(list) \/ (list = <<>> /\ choice = 0)
            /\ RunLogs(list, choice)

\* client.get_agents() raises: "Failed to connect to OpAMP server"
LogsServerDown ==
    /\ entry = "Logs.py"
    /\ logs' = [run |-> "error"]
    /\ UNCHANGED <<entry, log_agents, log_choice, origVars, barsVars, cmpVars, dashVars,
                   metricsVars, clientVars, rotateVars>>

InitLogs == /\ entry = "Logs.py"
            /\ ToolsIdle
            /\ OrigIdle
            /\ BarsIdle
            /\ CmpIdle

NextLogs == LogsRerun \/ LogsServerDown

SpecLogs == InitLogs /\ [][NextLogs]_vars

\* C25: the natural stream of the selected agent, shown in the help text and
\* added to the stream options, is the first log_stream_name of the selected
\* agent's own EffectiveConfig, whatever other agents are connected.
C25_NaturalStreamOwnConfig ==
    (logs.run = "rendered" /\ logs.available_streams # <<>>) =>
        LET own == FirstStream(log_agents[log_choice + 1].EffectiveConfig)
        IN  /\ logs.agent_configured_stream = own
            /\ logs.help = IF own # "" THEN own ELSE "Select any available stream"
            /\ own # "" => Contains(logs.stream_options, own)


----------------------------------------------------------------------------
(* tool/opamp_server/streamlit-ui/utils/api_client.py: one action is one   *)
(* call of a method of OpAMPClient.  The outcome of the HTTP exchange is   *)
(* "ok", one of the requests exceptions raised by requests.get/post or by  *)
(* raise_for_status, or a body that response.json() cannot decode.         *)

ClientMaxCalls == 2   \* calls kept in the history

\* raised by the request itself or by response.raise_for_status()
Failures == {"ConnectionError", "Timeout", "HTTPError"}

\* response.json() on a body that is not JSON raises
\* requests.exceptions.JSONDecodeError, a RequestException, from requests 2.27
\* on and a plain ValueError before
DecodeErrors == {"JSONDecodeError", "ValueError"}

RequestExceptions == Failures \cup {"JSONDecodeError"}

JsonOutcomes == {"ok"} \cup Failures \cup DecodeErrors
PostOutcomes == {"ok"} \cup Failures

\* the decoded body of a successful response
JsonBody == [data |-> "json"]

InstanceId == "i1"

\* an optional argument: None (not sent) or a value
OptionalArg(v) == {None, Some(v)}

AgentOperations == {"get_agents", "get_agent", "update_agent_config", "start_agent",
                    "stop_agent"}
Commands == {"update_agent_config", "start_agent", "stop_agent"}
TelemetryGetters == {"get_agent_status", "get_agent_logs", "get_log_streams",
                     "get_agent_metrics", "get_available_metrics"}

Returned(v) == [kind |-> "returned", value |-> v]
Raised(type, message) == [kind |-> "raised", type |-> type, message |-> message]

\* the handler of the telemetry getters, were it the one of the agent operations
ErrorDict_raises(defaults, outcome) ==
    IF outcome = "ok" THEN Returned(JsonBody)
    ELSE Raised("Exception", <<"Failed: ", outcome>>)

\* try: ... return value; except RequestException as e: raise Exception(message + e)
RaiseFailed(message, outcome, value) ==
    IF outcome = "ok" THEN Returned(value)
    ELSE IF outcome \in RequestExceptions THEN Raised("Exception", <<message, outcome>>)
    ELSE Raised(outcome, <<>>)

\* try: ... return response.json(); except RequestException as e:
\* return {..., "error": str(e)}
ErrorDict(defaults, outcome) ==
    IF outcome = "ok" THEN Returned(JsonBody)
    ELSE IF outcome \in RequestExceptions THEN Returned(defaults @@ [error |-> outcome])
    ELSE Raised(outcome, <<>>)

\* the keys of params whose argument is truthy
Params(args) == {k \in DOMAIN args : args[k] # None}

Call(method, verb, path, timeout, sent_keys, outcome, result) ==
    /\ entry = "api_client.py"
    /\ Len(calls) < ClientMaxCalls
    /\ calls' = Append(calls, [method |-> method,
                               request |-> [verb |-> verb, path |-> path,
                                            timeout |-> timeout, keys |-> sent_keys],
                               outcome |-> outcome,
                               result |-> result])
    /\ UNCHANGED <<entry, origVars, barsVars, cmpVars, dashVars, metricsVars, logsVars,
                   rotateVars>>

get_agents ==
    \E outcome \in JsonOutcomes :
        Call("get_agents", "GET", "/api/agents", 5, {}, outcome,
             RaiseFailed("Failed to fetch agents: ", outcome, JsonBody))

get_agent ==
    \E outcome \in JsonOutcomes :
        Call("get_agent", "GET", <<"/api/agent/", InstanceId>>, 5, {}, outcome,
             RaiseFailed(<<"Failed to fetch agent ", InstanceId>>, outcome, JsonBody))

update_agent_config ==
    \E outcome \in PostOutcomes :
        Call("update_agent_config", "POST", "/save_config", 10, {"instanceid", "config"},
             outcome,
             RaiseFailed(<<"Failed to update config for agent ", InstanceId>>, outcome, TRUE))

start_agent ==
    \E outcome \in PostOutcomes :
        Call("start_agent", "POST", "/api/agent/start", 30, {"instanceid"}, outcome,
             RaiseFailed(<<"Failed to start agent ", InstanceId>>, outcome, TRUE))

stop_agent ==
    \E outcome \in PostOutcomes :
        Call("stop_agent", "POST", "/api/agent/stop", 30, {"instanceid"}, outcome,
             RaiseFailed(<<"Failed to stop agent ", InstanceId>>, outcome, TRUE))

get_agent_status ==
    \E outcome \in JsonOutcomes :
        Call("get_agent_status", "GET", "/api/agent/status", 10, {}, outcome,
             ErrorDict(<<>>, outcome))

get_agent_logs ==
    \E outcome \in JsonOutcomes, agent_id \in OptionalArg(InstanceId),
       stream \in OptionalArg("s1") :
        Call("get_agent_logs", "GET", "/api/agent/logs", 10,
             Params([agent_id |-> agent_id, stream |-> stream]) \cup {"_t"}, outcome,
             ErrorDict(<<>>, outcome))

get_log_streams ==
    \E outcome \in JsonOutcomes :
        Call("get_log_streams", "GET", "/api/agent/streams", 10, {}, outcome,
             ErrorDict([streams |-> <<"Log_pipeline", "Log_testing">>], outcome))

get_agent_metrics ==
    \E outcome \in JsonOutcomes, agent_id \in OptionalArg(InstanceId),
       metric_name \in OptionalArg("mem_used_percent") :
        Call("get_agent_metrics", "GET", "/api/agent/metrics", 10,
             Params([agent_id |-> agent_id, metric_name |-> metric_name,
                     time_filter |-> Some("1h"), namespace |-> Some("CWAgent")])
                 \cup {"_t"},
             outcome, ErrorDict(<<>>, outcome))

get_available_metrics ==
    \E outcome \in JsonOutcomes, namespace \in OptionalArg("CWAgent") :
        Call("get_available_metrics", "GET", "/api/agent/available-metrics", 10,
             Params([namespace |-> namespace]), outcome,
             ErrorDict([metrics |-> <<"mem_used_percent", "disk_used_percent",
                                      "swap_used_percent">>], outcome))

InitClient == /\ entry = "api_client.py"
              /\ ToolsIdle
              /\ OrigIdle
              /\ BarsIdle
              /\ CmpIdle

NextClient ==
    \/ get_agents
    \/ get_agent
    \/ update_agent_config
    \/ start_agent
    \/ stop_agent
    \/ get_agent_status
    \/ get_agent_logs
    \/ get_log_streams
    \/ get_agent_metrics
    \/ get_available_metrics

SpecClient == InitClient /\ [][NextClient]_vars

\* C26: when the HTTP request fails (connection error, timeout or error
\* status) the five agent operations raise and return nothing, the five
\* telemetry getters do not raise and return a dict with an "error" key, with
\* the default streams and metrics lists for get_log_streams and
\* get_available_metrics; a command returns True only after a successful
\* response.
C26_ErrorOutcomes ==
    \A k \in 1..Len(calls) :
        LET call == calls[k] IN
        /\ (call.outcome \in Failures /\ call.method \in AgentOperations) =>
               call.result.kind = "raised"
        /\ (call.outcome \in Failures /\ call.method \in TelemetryGetters) =>
               /\ call.result.kind = "returned"
               /\ "error" \in DOMAIN call.result.value
               /\ call.method = "get_log_streams" =>
                      call.result.value.streams = <<"Log_pipeline", "Log_testing">>
               /\ call.method = "get_available_metrics" =>
                      call.result.value.metrics =
                          <<"mem_used_percent", "disk_used_percent", "swap_used_percent">>
        /\ (call.method \in Commands /\ call.result.kind = "returned") =>
               call.outcome = "ok" /\ call.result.value = TRUE

\* a stop command that timed out and raised, then a stream listing that could
\* not connect and returned the default streams with the error
C26_Witness ==
    /\ Len(calls) = 2
    /\ calls[1].method = "stop_agent"
    /\ calls[1].outcome = "Timeout"
    /\ calls[1].result.kind = "raised"
    /\ calls[2].method = "get_log_streams"
    /\ calls[2].outcome = "ConnectionError"
    /\ calls[2].result = Returned([streams |-> <<"Log_pipeline", "Log_testing">>,
                                   error |-> "ConnectionError"])


----------------------------------------------------------------------------
(* integration/test/cloudwatchlogs/resources/write_and_rotate_logs.py with *)
(* logging.handlers.TimedRotatingFileHandler(when="S", interval=10).       *)
(* Time is int(time.time()), in seconds.  A rotated file is named by the   *)
(* time in its suffix, rolloverAt - interval; the local time does not      *)
(* shift during the run.  Rotated files left by earlier runs carry other   *)
(* suffixes and are left out.                                              *)

RotMaxDelay == 2    \* most seconds spent before the first message, or overslept by a sleep
RotMaxAge == 12     \* greatest age in seconds of a log file found at the start

Interval == 10      \* line 16: when="S", interval=10
SleepSeconds == 15  \* lines 22 and 26
StartTime == RotMaxAge

Messages == <<"message 1", "message 2", "message 3">>

\* /tmp/rotate_me.log before the script starts: absent, or left by an earlier
\* process, empty or not
FilesAtStart ==
    {None} \cup {Some([content |-> c, mtime |-> StartTime - age]) :
                    c \in {<<>>, <<"old message">>}, age \in 0..RotMaxAge}

\* shouldRollover, were the handler to wait for a second interval
shouldRollover_secondInterval(t, at) == t >= at + Interval

\* TimedRotatingFileHandler.shouldRollover: int(time.time()) >= self.rolloverAt
shouldRollover(t, at) == t >= at

\* computeRollover for when="S"
computeRollover(t) == t + Interval

\* doRollover: the name of the rotated file, the time rolloverAt - interval
RotatedName(at) == at - Interval

\* doRollover: remove a file of that name, rename the log file to it
Rotate(backups, name, content) ==
    {f \in backups : f.name # name} \cup {[name |-> name, content |-> content]}

\* line 16: FileHandler opens the file for appending, which creates it when
\* absent; rolloverAt is computed from its mtime
CreateHandler ==
    /\ entry = "write_and_rotate_logs.py"
    /\ rpc = "handler"
    /\ LET opened == IF base_file = None THEN [content |-> <<>>, mtime |-> now]
                     ELSE Val(base_file)
       IN  /\ base_file' = Some(opened)
           /\ rolloverAt' = computeRollover(opened.mtime)
    /\ \E d \in 0..RotMaxDelay : now' = now + d
    /\ rpc' = "log 1"
    /\ UNCHANGED <<entry, rotated, origVars, barsVars, cmpVars, dashVars, metricsVars,
                   logsVars, clientVars>>

\* logging.info: BaseRotatingHandler.emit does the rollover if it is due, then
\* writes the record
Emit(msg, next) ==
    /\ entry = "write_and_rotate_logs.py"
    /\ IF shouldRollover(now, rolloverAt)
       THEN /\ rotated' = Rotate(rotated, RotatedName(rolloverAt), Val(base_file).content)
            /\ rolloverAt' = computeRollover(now)
            /\ base_file' = Some([content |-> <<msg>>, mtime |-> now])
       ELSE /\ base_file' = Some([content |-> Append(Val(base_file).content, msg),
                                  mtime |-> now])
            /\ UNCHANGED <<rotated, rolloverAt>>
    /\ rpc' = next
    /\ UNCHANGED <<entry, now, origVars, barsVars, cmpVars, dashVars, metricsVars,
                   logsVars, clientVars>>

\* time.sleep(15): at least 15 seconds pass
Sleep(next) ==
    /\ entry = "write_and_rotate_logs.py"
    /\ \E d \in 0..RotMaxDelay : now' = now + SleepSeconds + d
    /\ rpc' = next
    /\ UNCHANGED <<entry, rolloverAt, base_file, rotated, origVars, barsVars, cmpVars,
                   dashVars, metricsVars, logsVars, clientVars>>

Log1 == rpc = "log 1" /\ Emit(Messages[1], "sleep 1")
Sleep1 == rpc = "sleep 1" /\ Sleep("log 2")
Log2 == rpc = "log 2" /\ Emit(Messages[2], "sleep 2")
Sleep2 == rpc = "sleep 2" /\ Sleep("log 3")
Log3 == rpc = "log 3" /\ Emit(Messages[3], "done")

InitRotate == /\ entry = "write_and_rotate_logs.py"
              /\ now = StartTime
              /\ rpc = "handler"
              /\ rolloverAt = 0
              /\ base_file \in FilesAtStart
              /\ rotated = {}
              /\ DashIdle
              /\ MetricsIdle
              /\ LogsIdle
              /\ ClientIdle
              /\ OrigIdle
              /\ BarsIdle
              /\ CmpIdle

NextRotate == CreateHandler \/ Log1 \/ Sleep1 \/ Log2 \/ Sleep2 \/ Log3

SpecRotate == InitRotate /\ [][NextRotate]_vars

----------------------------------------------------------------------------
(* Properties of the log rotation fixture, checked under SpecRotate *)

\* the messages of the script held by a file
RECURSIVE OwnMessages(_)
OwnMessages(content) ==
    IF content = <<>> THEN <<>>
    ELSE IF \E k \in 1..Len(Messages) : Messages[k] = Head(content)
         THEN <<Head(content)>> \o OwnMessages(Tail(content))
         ELSE OwnMessages(Tail(content))

Holds(content, msg) == \E i \in 1..Len(content) : content[i] = msg

\* C27: the second and the third message are each written after the rollover
\* time has passed and after a rotation that moves the log file away, so the
\* log file never holds more than one of the three messages, and at the end
\* the three messages are in three distinct files.
C27_RotationBeforeEachWrite ==
    [][/\ (rpc \in {"log 2", "log 3"} /\ rpc' # rpc) =>
              /\ now >= rolloverAt
              /\ [name |-> RotatedName(rolloverAt), content |-> Val(base_file).content]
                     \in rotated'
              /\ Val(base_file').content = <<IF rpc = "log 2" THEN Messages[2]
                                             ELSE Messages[3]>>
       /\ base_file' # None => Len(OwnMessages(Val(base_file').content)) <= 1
       /\ rpc' = "done" =>
              \E f1, f2 \in rotated' :
                  /\ f1.name # f2.name
                  /\ Holds(f1.content, Messages[1]) /\ ~Holds(f1.content, Messages[2])
                  /\ Holds(f2.content, Messages[2]) /\ ~Holds(f2.content, Messages[1])
                  /\ Val(base_file').content = <<Messages[3]>>]_vars

\* the script has ended after two rotations
C27_Witness ==
    /\ rpc = "done"
    /\ Cardinality(rotated) = 2
    /\ Val(base_file).content = <<Messages[3]>>
    /\ \E f \in rotated : f.content = <<Messages[1]>>
    /\ \E f \in rotated : f.content = <<Messages[2]>>

====
